---------------------------- MODULE Spec2Model ----------------------------
(***************************************************************************)
(* The Stock Level Ledger of gostock: Service.AdjustStock                  *)
(* (internal/service/stockservice/service.go) on top of                    *)
(* StockRepository.UpdateStockLevel (package stockrepo), run by several    *)
(* concurrent callers against one PostgreSQL table stock_levels.           *)
(*                                                                         *)
(* Every database statement of UpdateStockLevel is one action.  The        *)
(* storage is modelled by what the statements of the code ask of it:       *)
(* READ COMMITTED transactions (BeginTx(ctx, nil)), SELECT ... FOR UPDATE   *)
(* row locks held to the end of the transaction, the UNIQUE constraint on  *)
(* (variant_id, warehouse_id), the CHECK (quantity >= 0) constraint, and   *)
(* statements that may fail at any time (connection loss, the deadline of  *)
(* ctxTimeout).                                                            *)
(*                                                                         *)
(* Around it: Handler.AdjustStockHandler (internal/api/stock/handler.go),  *)
(* which decodes the request and answers with an HTTP status, and           *)
(* middleware.RateLimiter (internal/pkg/middleware/ratelimit.go), which    *)
(* counts the requests of a client IP in a cache.                          *)
(***************************************************************************)
EXTENDS Integers, Sequences, FiniteSets, TLC

(* ----------------------------- bounds ---------------------------------- *)
NumCalls == 3
MaxDelta == 1
NumVariants == 2
MaxInitQuantity == 1
(* the requests one client IP sends within one window of the rate limiter, *)
(* and the limit (10 as the router configures it)                          *)
NumRequests == 4
limit == 2

Calls == 1..NumCalls
Variants == 1..NumVariants
Warehouses == {1}
Pairs == Variants \X Warehouses
(* the deltas a caller may send, 0 included (the service rejects it) *)
Deltas == (0 - MaxDelta)..MaxDelta
Requests == 1..NumRequests

(* ------------------------- domain.StockLevel --------------------------- *)
(* domain.StockLevel{}: the zero value the code returns beside an error *)
ZeroStockLevel ==
  [id |-> 0, variantID |-> 0, warehouseID |-> 0, quantity |-> 0,
   version |-> 0, createdAt |-> 0, updatedAt |-> 0]

StockLevel(id, v, w, q, ver, c, u) ==
  [id |-> id, variantID |-> v, warehouseID |-> w, quantity |-> q,
   version |-> ver, createdAt |-> c, updatedAt |-> u]

(* domain.StockAdjustmentRequest; the zero value before the call is made *)
NoRequest == [variantID |-> 0, warehouseID |-> 0, delta |-> 0]

(* ------------------------------ errors --------------------------------- *)
(* AppError: its Category() and the cause it wraps (Unwrap) *)
NoError == [category |-> "", cause |-> ""]
NewValidationError == [category |-> "VALIDATION_ERROR", cause |-> ""]
(* mutant: the zero-rows branch returns a plain database error *)
NewConflictError_AsDBError == [category |-> "INTERNAL_ERROR", cause |-> ""]
NewConflictError == [category |-> "CONFLICT", cause |-> ""]
NewNotFoundError == [category |-> "NOT_FOUND", cause |-> ""]
NewInternalError(cause) == [category |-> "INTERNAL_ERROR", cause |-> cause]
NewDBError(cause) == NewInternalError(cause)

(* the HTTP status codes of net/http the code uses, and 201 Created *)
StatusOK == 200
StatusCreated == 201
StatusBadRequest == 400
StatusConflict == 409
StatusInternalServerError == 500
StatusTooManyRequests == 429
(* no response written yet *)
NoStatus == 0

(* AppError.HTTPStatus() of the three error types *)
HTTPStatus(e) ==
  CASE e.category = "VALIDATION_ERROR" -> StatusBadRequest
    [] e.category = "CONFLICT" -> StatusConflict
    [] e.category = "INTERNAL_ERROR" -> StatusInternalServerError

(* mutant: every error is answered with 500 *)
MapToHTTPStatus_Always500(e) == StatusInternalServerError

(* MapToHTTPStatus: the status of an AppError, 500 for an untyped error *)
MapToHTTPStatus(e) ==
  IF e.category \in {"VALIDATION_ERROR", "CONFLICT", "INTERNAL_ERROR"}
  THEN HTTPStatus(e)
  ELSE StatusInternalServerError

(* Handler.handleServiceResponse: the status it writes *)
HandleServiceResponse(e, successStatus) ==
  IF e = NoError THEN successStatus ELSE MapToHTTPStatus(e)

(* what the driver can report for a statement *)
StorageFailure == "storage_failure"
UniqueViolation == "unique_violation"
CheckViolation == "check_violation"

VARIABLES
  rows,          \* the committed rows of stock_levels
  locks,         \* row locks: <<call, row id>>, held to the end of the transaction
  txWrite,       \* per call: the uncommitted write of its transaction
  clock,         \* time.Now()
  pc,            \* per call: the statement it is about to execute
  adjustment,    \* per call: the request
  currentStock,  \* per call: the row its locking read returned
  repoErr,       \* per call: the error UpdateStockLevel returned to the service
  err,           \* per call: the error the service returned
  status,        \* per call: the HTTP status the handler answered
  stockLevel,    \* per call: the StockLevel the service returned
  initial,       \* history: the rows at the start
  finishedBefore,\* history: per call, the calls that had returned when it started
  cacheCount,    \* the cache: the value under the key "rate-limit:" + ip
  rlPc,          \* per request: the cache operation the limiter is about to make
  count,         \* per request: the count its GetInt returned
  answer         \* per request: forwarded to the next handler, or the status answered

rlVars == <<cacheCount, rlPc, count, answer>>

stockVars == <<rows, locks, txWrite, clock, pc, adjustment, currentStock,
               repoErr, err, status, stockLevel, initial, finishedBefore>>

vars == <<rows, locks, txWrite, clock, pc, adjustment, currentStock,
          repoErr, err, status, stockLevel, initial, finishedBefore,
          cacheCount, rlPc, count, answer>>

(* --------------------------- the storage ------------------------------- *)
(* WHERE variant_id = $1 AND warehouse_id = $2, over the committed rows *)
RowsOf(v, w) == {r \in rows : r.variantID = v /\ r.warehouseID = w}

(* mutant: a held row lock makes no other transaction wait *)
LockedByOther_Never(c, r) == FALSE

(* another transaction holds the lock of row r *)
LockedByOther(c, r) == \E o \in Calls \ {c} : <<o, r.id>> \in locks

(* mutant: the SELECT without FOR UPDATE *)
SelectLocks_NoLock(c, r) == {}

(* mutant: the read locks the whole table instead of the row *)
SelectLocks_Table(c, r) == {<<c, x.id>> : x \in rows}

(* FOR UPDATE: the transaction of call c locks the row it selects *)
SelectLocks(c, r) == {<<c, r.id>>}

(* mutant: the table was created without the UNIQUE constraint *)
UniqueVariantWarehouse_Absent(c, v, w) == "ok"

(* CONSTRAINT unique_variant_warehouse UNIQUE (variant_id, warehouse_id), as  *)
(* an INSERT of call c meets it: it waits for an uncommitted insert of the    *)
(* same key, and is refused when a committed row holds the key                *)
UniqueVariantWarehouse(c, v, w) ==
  IF \E o \in Calls \ {c} : \E r \in txWrite[o].new :
        /\ txWrite[o].op = "insert"
        /\ r.variantID = v /\ r.warehouseID = w
  THEN "wait"
  ELSE IF RowsOf(v, w) # {} THEN "violation" ELSE "ok"

(* quantity INT NOT NULL CHECK (quantity >= 0) *)
QuantityCheck(q) == q >= 0

(* mutant: the INSERT passes version 0 *)
InitialVersion_Zero == 1 - 1

(* version INT NOT NULL DEFAULT 1, and the 1 the INSERT passes *)
InitialVersion == 1

(* uuid.New(): a fresh id; the rows present at the start hold other ids *)
NewID(c) == c
InitialID(v, w) == NumCalls + (v - 1) * Cardinality(Warehouses) + w

NoWrite == [op |-> "none", old |-> {}, new |-> {}]

(* mutant: the commit adds the written row beside the row it replaces *)
Committed_Append(c) == rows \cup txWrite[c].new

(* tx.Commit(): the committed rows once the write of call c is applied *)
Committed(c) == (rows \ txWrite[c].old) \cup txWrite[c].new

(* mutant: the rollback leaves the write of the transaction in the table *)
RolledBack_Applied(c) == Committed(c)

(* tx.Rollback(): the committed rows once the write of call c is dropped *)
RolledBack(c) == rows

(* ------------------------- Service.AdjustStock ------------------------- *)
(* mutant: the service returns every error of the repository as an        *)
(* InternalError                                                           *)
ServiceError_AllInternal(e) ==
  IF e = NoError THEN NoError ELSE NewInternalError(e.cause)

(* the error the service returns for the error of the repository: the      *)
(* errors.As tests for *ConflictError and *ValidationError, else           *)
(* NewInternalError wrapping the error                                     *)
ServiceError(e) ==
  IF e = NoError THEN NoError
  ELSE IF e.category = "CONFLICT" THEN NewConflictError
  ELSE IF e.category = "VALIDATION_ERROR" THEN NewValidationError
  ELSE NewInternalError(e.cause)

(* mutant: on a refused write (a conflict or a violated uniqueness       *)
(* constraint) the transaction is rolled back and the call starts over    *)
(* at its locking read                                                    *)
Return_Retry(c, e, sl) ==
  /\ pc' = [pc EXCEPT ![c] =
              IF e.category = "CONFLICT" \/ e.cause = UniqueViolation
              THEN "Select" ELSE "done"]
  /\ repoErr' = [repoErr EXCEPT ![c] = e]
  /\ err' = [err EXCEPT ![c] = ServiceError(e)]
  /\ status' = [status EXCEPT ![c] = HandleServiceResponse(ServiceError(e), StatusOK)]
  /\ stockLevel' = [stockLevel EXCEPT ![c] = IF e = NoError THEN sl ELSE ZeroStockLevel]
  /\ locks' = {l \in locks : l[1] # c}
  /\ txWrite' = [txWrite EXCEPT ![c] = NoWrite]

(* mutant: the end of the transaction leaves its row locks in place *)
Return_KeepLocks(c, e, sl) ==
  /\ pc' = [pc EXCEPT ![c] = "done"]
  /\ repoErr' = [repoErr EXCEPT ![c] = e]
  /\ err' = [err EXCEPT ![c] = ServiceError(e)]
  /\ status' = [status EXCEPT ![c] = HandleServiceResponse(ServiceError(e), StatusOK)]
  /\ stockLevel' = [stockLevel EXCEPT ![c] = IF e = NoError THEN sl ELSE ZeroStockLevel]
  /\ locks' = locks
  /\ txWrite' = [txWrite EXCEPT ![c] = NoWrite]

(* UpdateStockLevel returns (sl, e) to the service, which returns to      *)
(* Handler.AdjustStockHandler, which answers (with StatusOK for success); *)
(* the deferred tx.Rollback() (or the commit before it) ends the          *)
(* transaction: its locks are released and its uncommitted write is gone  *)
Return(c, e, sl) ==
  /\ pc' = [pc EXCEPT ![c] = "done"]
  /\ repoErr' = [repoErr EXCEPT ![c] = e]
  /\ err' = [err EXCEPT ![c] = ServiceError(e)]
  /\ status' = [status EXCEPT ![c] = HandleServiceResponse(ServiceError(e), StatusOK)]
  /\ stockLevel' = [stockLevel EXCEPT ![c] = IF e = NoError THEN sl ELSE ZeroStockLevel]
  /\ locks' = {l \in locks : l[1] # c}
  /\ txWrite' = [txWrite EXCEPT ![c] = NoWrite]

(* mutant: the service has no guard on the delta *)
ZeroDelta_Off(d) == FALSE

(* the guard of the service on the request *)
ZeroDelta(d) == d = 0

(* Service.AdjustStock is called with a delta in D: a zero delta is        *)
(* refused before the repository is reached; otherwise UpdateStockLevel    *)
(* starts with r.DB.BeginTx(ctxTimeout, nil), which can fail               *)
Call(c, D) ==
  /\ pc[c] = "idle"
  /\ IF c = 1 THEN TRUE ELSE pc[c - 1] # "idle"
  /\ \E v \in Variants, w \in Warehouses, d \in D :
       /\ adjustment' = [adjustment EXCEPT ![c] =
                           [variantID |-> v, warehouseID |-> w, delta |-> d]]
       /\ finishedBefore' = [finishedBefore EXCEPT ![c] =
                               {o \in Calls : pc[o] = "done"}]
       /\ IF ZeroDelta(d)
          THEN /\ pc' = [pc EXCEPT ![c] = "done"]
               /\ err' = [err EXCEPT ![c] = NewValidationError]
               /\ status' = [status EXCEPT ![c] =
                                HandleServiceResponse(NewValidationError, StatusOK)]
               /\ UNCHANGED <<repoErr, stockLevel, locks, txWrite>>
          ELSE \E fail \in BOOLEAN :
               IF fail
               THEN Return(c, NewDBError(StorageFailure), ZeroStockLevel)
               ELSE /\ pc' = [pc EXCEPT ![c] = "Select"]
                    /\ UNCHANGED <<repoErr, err, status, stockLevel, locks, txWrite>>
  /\ UNCHANGED <<rows, clock, currentStock, initial, rlVars>>

AdjustStock(c) == Call(c, Deltas)

(* -------------------- StockRepository.UpdateStockLevel ----------------- *)
(* querySelect and its Scan: no row (sql.ErrNoRows) sends the call to the     *)
(* insert; with FOR UPDATE a row is locked and read once no other             *)
(* transaction holds its lock, without it the row is read at once and no      *)
(* lock is taken; the statement can fail while it waits                       *)
SelectRow(c, forUpdate) ==
  /\ pc[c] = "Select"
  /\ LET found == RowsOf(adjustment[c].variantID, adjustment[c].warehouseID) IN
     \E fail \in BOOLEAN :
       IF fail
       THEN /\ Return(c, NewDBError(StorageFailure), ZeroStockLevel)
            /\ UNCHANGED currentStock
       ELSE IF found = {}
       THEN /\ pc' = [pc EXCEPT ![c] = "Insert"]
            /\ UNCHANGED <<repoErr, err, status, stockLevel, locks, txWrite, currentStock>>
       ELSE \E r \in found :
            /\ forUpdate => ~LockedByOther(c, r)
            /\ locks' = IF forUpdate THEN locks \cup SelectLocks(c, r) ELSE locks
            /\ currentStock' = [currentStock EXCEPT ![c] = r]
            /\ pc' = [pc EXCEPT ![c] = "Update"]
            /\ UNCHANGED <<repoErr, err, status, stockLevel, txWrite>>
  /\ UNCHANGED <<rows, clock, adjustment, initial, finishedBefore, rlVars>>

(* SELECT ... FOR UPDATE, as the code has it *)
SelectForUpdate(c) == SelectRow(c, TRUE)

(* the same SELECT without FOR UPDATE: the read of the weaker model in     *)
(* which only the version guard of the UPDATE protects the row             *)
SelectNoLock(c) == SelectRow(c, FALSE)

(* mutant: the delta overwrites the quantity instead of adding to it *)
NewQuantity_Overwrite(cur, d) == d

(* newQuantity := currentStock.Quantity + adjustment.Delta (on the insert   *)
(* path currentStock is the zero value and newQuantity is the delta)        *)
NewQuantity(cur, d) == cur.quantity + d

(* mutants: the validation is missing; it is off by one; its comparison   *)
(* is inverted                                                            *)
NegativeQuantity_Off(q) == FALSE
NegativeQuantity_OffByOne(q) == q < -1
NegativeQuantity_Inverted(q) == q > 0

(* mutant: a result of exactly 0 is refused too *)
NegativeQuantity_OrZero(q) == q <= 0

(* if newQuantity < 0: the repository's own refusal *)
NegativeQuantity(q) == q < 0

(* sql.ErrNoRows: the validation of the first adjustment, then the INSERT     *)
(* ... RETURNING with version 1 and time.Now()                                *)
InsertStock(c) ==
  /\ pc[c] = "Insert"
  /\ LET v == adjustment[c].variantID
         w == adjustment[c].warehouseID
         q == NewQuantity(ZeroStockLevel, adjustment[c].delta)
         newSl == StockLevel(NewID(c), v, w, q, InitialVersion, clock, clock)
     IN
     IF NegativeQuantity(q)
     THEN /\ Return(c, NewValidationError, ZeroStockLevel)
          /\ UNCHANGED clock
     ELSE \E fail \in BOOLEAN :
          IF fail
          THEN /\ Return(c, NewDBError(StorageFailure), ZeroStockLevel)
               /\ UNCHANGED clock
          ELSE /\ UniqueVariantWarehouse(c, v, w) # "wait"
               /\ IF UniqueVariantWarehouse(c, v, w) = "violation"
                  THEN /\ Return(c, NewDBError(UniqueViolation), ZeroStockLevel)
                       /\ UNCHANGED clock
                  ELSE IF ~QuantityCheck(q)
                  THEN /\ Return(c, NewDBError(CheckViolation), ZeroStockLevel)
                       /\ UNCHANGED clock
                  ELSE /\ txWrite' = [txWrite EXCEPT ![c] =
                                        [op |-> "insert", old |-> {}, new |-> {newSl}]]
                       /\ clock' = clock + 1
                       /\ pc' = [pc EXCEPT ![c] = "CommitInsert"]
                       /\ UNCHANGED <<repoErr, err, status, stockLevel, locks>>
  /\ UNCHANGED <<rows, adjustment, currentStock, initial, finishedBefore, rlVars>>

(* tx.Commit() of the insert, and return newSl (the row RETURNING gave);   *)
(* a Commit that reports an error has committed nothing                   *)
CommitInsert(c) ==
  /\ pc[c] = "CommitInsert"
  /\ \E fail \in BOOLEAN :
       IF fail
       THEN /\ Return(c, NewDBError(StorageFailure), ZeroStockLevel)
            /\ rows' = RolledBack(c)
       ELSE /\ rows' = Committed(c)
            /\ \E newSl \in txWrite[c].new : Return(c, NoError, newSl)
  /\ UNCHANGED <<clock, adjustment, currentStock, initial, finishedBefore, rlVars>>

(* mutant: the UPDATE leaves the version as it was *)
NextVersion_Same(ver) == ver

(* currentStock.Version + 1, the version the UPDATE sets *)
NextVersion(ver) == ver + 1

(* mutant: the WHERE of the UPDATE names the version only, not the pair *)
VersionGuard_AnyPair(c) == {r \in rows : r.version = currentStock[c].version}

(* mutant: the WHERE of the UPDATE has no version predicate *)
VersionGuard_NoVersion(c) ==
  RowsOf(adjustment[c].variantID, adjustment[c].warehouseID)

(* the rows the UPDATE's WHERE selects: the pair and the version read *)
VersionGuard(c) ==
  {r \in RowsOf(adjustment[c].variantID, adjustment[c].warehouseID) :
     r.version = currentStock[c].version}

(* the validation on the row read, then UPDATE ... SET quantity, version,     *)
(* updated_at WHERE ... AND version = $6, and its RowsAffected: the update    *)
(* waits for a row another transaction has locked                             *)
UpdateStock(c) ==
  /\ pc[c] = "Update"
  /\ LET q == NewQuantity(currentStock[c], adjustment[c].delta)
         matching == VersionGuard(c)
         written == {[r EXCEPT !.quantity = q,
                               !.version = NextVersion(currentStock[c].version),
                               !.updatedAt = clock] : r \in matching}
     IN
     IF NegativeQuantity(q)
     THEN /\ Return(c, NewValidationError, ZeroStockLevel)
          /\ UNCHANGED clock
     ELSE \E fail \in BOOLEAN :
          IF fail
          THEN /\ Return(c, NewDBError(StorageFailure), ZeroStockLevel)
               /\ UNCHANGED clock
          ELSE /\ \A r \in matching : ~LockedByOther(c, r)
               /\ IF matching # {} /\ ~QuantityCheck(q)
                  THEN /\ Return(c, NewDBError(CheckViolation), ZeroStockLevel)
                       /\ UNCHANGED clock
                  ELSE IF Cardinality(matching) = 0
                  THEN /\ Return(c, NewConflictError, ZeroStockLevel)
                       /\ UNCHANGED clock
                  ELSE /\ txWrite' = [txWrite EXCEPT ![c] =
                                        [op |-> "update", old |-> matching, new |-> written]]
                       /\ locks' = locks \cup {<<c, r.id>> : r \in matching}
                       /\ clock' = clock + 1
                       /\ pc' = [pc EXCEPT ![c] = "CommitUpdate"]
                       /\ UNCHANGED <<repoErr, err, status, stockLevel>>
  /\ UNCHANGED <<rows, adjustment, currentStock, initial, finishedBefore, rlVars>>

(* tx.Commit() of the update, and return currentStock with the new quantity,  *)
(* Version++ and UpdatedAt = time.Now()                                       *)
CommitUpdate(c) ==
  /\ pc[c] = "CommitUpdate"
  /\ \E fail \in BOOLEAN :
       IF fail
       THEN /\ Return(c, NewDBError(StorageFailure), ZeroStockLevel)
            /\ rows' = RolledBack(c)
            /\ UNCHANGED clock
       ELSE /\ rows' = Committed(c)
            /\ Return(c, NoError,
                      [currentStock[c] EXCEPT
                         !.quantity = NewQuantity(currentStock[c], adjustment[c].delta),
                         !.version = currentStock[c].version + 1,
                         !.updatedAt = clock])
            /\ UNCHANGED clock
  /\ UNCHANGED <<adjustment, currentStock, initial, finishedBefore, rlVars>>

(* ------------------------ middleware.RateLimiter ------------------------ *)
(* The requests of one client IP within one window (the key does not       *)
(* expire meanwhile).  Each cache operation is one atomic step.            *)

(* the key is not in the cache (cache.ErrCacheMiss); else <<n>> *)
CacheMiss == <<>>

(* next.ServeHTTP(w, r): the request reached the wrapped handler *)
Forwarded == -1

(* client.GetInt(ctx, key): the integer under the key *)
GetInt == cacheCount[1]

(* client.Set(ctx, key, 1, duration) *)
Set(value) == <<value>>

(* client.Incr(ctx, key): one more than the value under the key, 1 when    *)
(* there is none                                                           *)
Incr == IF cacheCount = CacheMiss THEN <<1>> ELSE <<cacheCount[1] + 1>>

(* the request ends with answer a *)
Answer(r, a) ==
  /\ rlPc' = [rlPc EXCEPT ![r] = "done"]
  /\ answer' = [answer EXCEPT ![r] = a]

(* count, err := client.GetInt(ctx, key) and the tests on its result: a    *)
(* miss sends the request to Set, an error is answered 500, a count at     *)
(* the limit is answered 429, a lower count sends the request to Incr      *)
RateLimiter(r) ==
  /\ rlPc[r] = "idle"
  /\ \E fail \in BOOLEAN :
       IF fail
       THEN Answer(r, StatusInternalServerError) /\ UNCHANGED count
       ELSE IF cacheCount = CacheMiss
       THEN /\ rlPc' = [rlPc EXCEPT ![r] = "Set"]
            /\ UNCHANGED <<count, answer>>
       ELSE /\ count' = [count EXCEPT ![r] = GetInt]
            /\ IF GetInt >= limit
               THEN Answer(r, StatusTooManyRequests)
               ELSE /\ rlPc' = [rlPc EXCEPT ![r] = "Incr"]
                    /\ UNCHANGED answer
  /\ UNCHANGED <<cacheCount, stockVars>>

(* on a miss: client.Set(ctx, key, 1, duration), then next.ServeHTTP *)
SetFirst(r) ==
  /\ rlPc[r] = "Set"
  /\ cacheCount' = Set(1)
  /\ Answer(r, Forwarded)
  /\ UNCHANGED <<count, stockVars>>

(* below the limit: client.Incr(ctx, key), then next.ServeHTTP *)
IncrCount(r) ==
  /\ rlPc[r] = "Incr"
  /\ cacheCount' = Incr
  /\ Answer(r, Forwarded)
  /\ UNCHANGED <<count, stockVars>>

(* ------------------------------ the system ----------------------------- *)
(* the table at the start: per pair no row, or one row with a quantity the  *)
(* CHECK constraint admits and a version a history of adjustments leaves    *)
InitialTables ==
  {t \in SUBSET {StockLevel(InitialID(p[1], p[2]), p[1], p[2], q, q + 1, 0, 0) :
                   p \in Pairs, q \in 0..MaxInitQuantity} :
     \A r1, r2 \in t : r1.id = r2.id => r1 = r2}

Init ==
  /\ rows \in InitialTables
  /\ initial = rows
  /\ locks = {}
  /\ txWrite = [c \in Calls |-> NoWrite]
  /\ clock = 1
  /\ pc = [c \in Calls |-> "idle"]
  /\ adjustment = [c \in Calls |-> NoRequest]
  /\ currentStock = [c \in Calls |-> ZeroStockLevel]
  /\ repoErr = [c \in Calls |-> NoError]
  /\ err = [c \in Calls |-> NoError]
  /\ status = [c \in Calls |-> NoStatus]
  /\ stockLevel = [c \in Calls |-> ZeroStockLevel]
  /\ finishedBefore = [c \in Calls |-> {}]
  /\ cacheCount = CacheMiss
  /\ rlPc = [r \in Requests |-> "idle"]
  /\ count = [r \in Requests |-> 0]
  /\ answer = [r \in Requests |-> NoStatus]

Next ==
  \E c \in Calls :
    \/ AdjustStock(c)
    \/ SelectForUpdate(c)
    \/ InsertStock(c)
    \/ CommitInsert(c)
    \/ UpdateStock(c)
    \/ CommitUpdate(c)

Spec == Init /\ [][Next]_vars

(* the storage executes the next statement of the transaction of call c    *)
(* and answers it (with a result or with a refusal, not with a failure)    *)
StorageAnswers(c) ==
  /\ \/ SelectForUpdate(c)
     \/ InsertStock(c)
     \/ CommitInsert(c)
     \/ UpdateStock(c)
     \/ CommitUpdate(c)
  /\ repoErr'[c] # NewDBError(StorageFailure)

(* The same calls with a storage that stays available: a statement that    *)
(* can be executed, of a transaction that is not waiting, is eventually     *)
(* executed (database/sql runs each call on its own goroutine and          *)
(* connection). Failures remain possible but nothing relies on them.       *)
SpecFair == Init /\ [][Next]_vars /\ \A c \in Calls : WF_vars(StorageAnswers(c))

(* StockRepository.GetStockLevel(variantID, warehouseID), in one step: a   *)
(* plain SELECT outside any transaction, which takes no lock, waits for    *)
(* none and sees committed rows only; it returns the row, NotFoundError    *)
(* when there is none, or the wrapped failure. The call has no delta.      *)
GetStockLevel(c) ==
  /\ pc[c] = "idle"
  /\ IF c = 1 THEN TRUE ELSE pc[c - 1] # "idle"
  /\ \E v \in Variants, w \in Warehouses :
       /\ adjustment' = [adjustment EXCEPT ![c] =
                           [variantID |-> v, warehouseID |-> w, delta |-> 0]]
       /\ finishedBefore' = [finishedBefore EXCEPT ![c] =
                               {o \in Calls : pc[o] = "done"}]
       /\ pc' = [pc EXCEPT ![c] = "done"]
       /\ \E fail \in BOOLEAN :
            IF fail
            THEN /\ repoErr' = [repoErr EXCEPT ![c] = NewDBError(StorageFailure)]
                 /\ err' = [err EXCEPT ![c] = NewDBError(StorageFailure)]
                 /\ UNCHANGED stockLevel
            ELSE IF RowsOf(v, w) = {}
            THEN /\ repoErr' = [repoErr EXCEPT ![c] = NewNotFoundError]
                 /\ err' = [err EXCEPT ![c] = NewNotFoundError]
                 /\ UNCHANGED stockLevel
            ELSE \E sl \in RowsOf(v, w) :
                 /\ stockLevel' = [stockLevel EXCEPT ![c] = sl]
                 /\ UNCHANGED <<repoErr, err>>
  /\ UNCHANGED <<rows, locks, txWrite, clock, currentStock, status, initial, rlVars>>

(* the repository under concurrent readers and writers *)
NextRead ==
  \E c \in Calls :
    \/ GetStockLevel(c)
    \/ AdjustStock(c)
    \/ SelectForUpdate(c)
    \/ InsertStock(c)
    \/ CommitInsert(c)
    \/ UpdateStock(c)
    \/ CommitUpdate(c)

SpecRead == Init /\ [][NextRead]_vars

(* Handler.AdjustStockHandler (the router passes it POST requests only):   *)
(* a body that json.Decode refuses is answered with the handler's own      *)
(* ValidationError and the service is not called; otherwise the decoded    *)
(* request goes to Service.AdjustStock                                     *)
AdjustStockHandler(c) ==
  \E decodable \in BOOLEAN :
    IF decodable
    THEN AdjustStock(c)
    ELSE /\ pc[c] = "idle"
         /\ IF c = 1 THEN TRUE ELSE pc[c - 1] # "idle"
         /\ pc' = [pc EXCEPT ![c] = "done"]
         /\ err' = [err EXCEPT ![c] = NewValidationError]
         /\ status' = [status EXCEPT ![c] =
                          HandleServiceResponse(NewValidationError, StatusBadRequest)]
         /\ finishedBefore' = [finishedBefore EXCEPT ![c] =
                                 {o \in Calls : pc[o] = "done"}]
         /\ UNCHANGED <<rows, locks, txWrite, clock, adjustment, currentStock,
                        repoErr, stockLevel, initial, rlVars>>

NextHTTP ==
  \E c \in Calls :
    \/ AdjustStockHandler(c)
    \/ SelectForUpdate(c)
    \/ InsertStock(c)
    \/ CommitInsert(c)
    \/ UpdateStock(c)
    \/ CommitUpdate(c)

SpecHTTP == Init /\ [][NextHTTP]_vars

(* The weaker model: the read takes no lock, so several transactions can  *)
(* read the same quantity and version of a row; the UPDATE still locks    *)
(* the row it writes                                                      *)
NextNoLock ==
  \E c \in Calls :
    \/ AdjustStock(c)
    \/ SelectNoLock(c)
    \/ InsertStock(c)
    \/ CommitInsert(c)
    \/ UpdateStock(c)
    \/ CommitUpdate(c)

SpecNoLock == Init /\ [][NextNoLock]_vars

(* the rate limiter alone, under concurrent requests of one client IP *)
NextRL ==
  \E r \in Requests :
    \/ RateLimiter(r)
    \/ SetFirst(r)
    \/ IncrCount(r)

SpecRL == Init /\ [][NextRL]_vars

(* Scenario B of the specification: every caller sends +10, and the table   *)
(* starts empty                                                             *)
ScenarioDelta == 10

AdjustStockB(c) == Call(c, {ScenarioDelta})

InitB == Init /\ rows = {}

NextB ==
  \E c \in Calls :
    \/ AdjustStockB(c)
    \/ SelectForUpdate(c)
    \/ InsertStock(c)
    \/ CommitInsert(c)
    \/ UpdateStock(c)
    \/ CommitUpdate(c)

SpecB == InitB /\ [][NextB]_vars

(* Scenario A of the specification: the table starts empty and the calls  *)
(* are made one after the other, each once the one before has returned,   *)
(* with the deltas +5, -5, -1; the scenario has no further call           *)
ScenarioADeltas == <<5, -5, -1>>

DeltaA(c) == ScenarioADeltas[c]

AdjustStockA(c) ==
  /\ c \in DOMAIN ScenarioADeltas
  /\ IF c = 1 THEN TRUE ELSE pc[c - 1] = "done"
  /\ Call(c, {DeltaA(c)})

InitA == Init /\ rows = {}

NextA ==
  \E c \in Calls :
    \/ AdjustStockA(c)
    \/ SelectForUpdate(c)
    \/ InsertStock(c)
    \/ CommitInsert(c)
    \/ UpdateStock(c)
    \/ CommitUpdate(c)

SpecA == InitA /\ [][NextA]_vars

(* The service over the MockStockRepository of its tests: UpdateStockLevel *)
(* returns whatever the test sets up, a StockLevel or any error, typed or  *)
(* not (errors.New)                                                        *)
UntypedError == [category |-> "", cause |-> "errors.New"]

MockErrors ==
  {NoError, NewConflictError, NewValidationError,
   NewDBError(StorageFailure), UntypedError}

(* Service.AdjustStock with the mock behind it, in one step *)
MockAdjustStock(c) ==
  /\ pc[c] = "idle"
  /\ IF c = 1 THEN TRUE ELSE pc[c - 1] # "idle"
  /\ \E v \in Variants, w \in Warehouses, d \in Deltas :
       /\ adjustment' = [adjustment EXCEPT ![c] =
                           [variantID |-> v, warehouseID |-> w, delta |-> d]]
       /\ finishedBefore' = [finishedBefore EXCEPT ![c] =
                               {o \in Calls : pc[o] = "done"}]
       /\ IF ZeroDelta(d)
          THEN /\ pc' = [pc EXCEPT ![c] = "done"]
               /\ err' = [err EXCEPT ![c] = NewValidationError]
               /\ status' = [status EXCEPT ![c] =
                                HandleServiceResponse(NewValidationError, StatusOK)]
               /\ UNCHANGED <<repoErr, stockLevel, locks, txWrite>>
          ELSE \E e \in MockErrors :
               Return(c, e, StockLevel(NewID(c), v, w, d, InitialVersion, clock, clock))
  /\ UNCHANGED <<rows, clock, currentStock, initial, rlVars>>

NextMock == \E c \in Calls : MockAdjustStock(c)

SpecMock == Init /\ [][NextMock]_vars

(* ------------------------------ outcomes -------------------------------- *)
Returned(c) == pc[c] = "done"
Succeeded(c) == Returned(c) /\ err[c] = NoError
Failed(c, category) == Returned(c) /\ err[c].category = category
PairOf(c) == <<adjustment[c].variantID, adjustment[c].warehouseID>>
OnPair(c, p) == pc[c] # "idle" /\ PairOf(c) = p
(* the locking read of call c returned a row *)
ReadRow(c) == currentStock[c] # ZeroStockLevel
(* the calls overlapped: neither had returned when the other started *)
Concurrent(c1, c2) ==
  /\ c1 # c2 /\ pc[c1] # "idle" /\ pc[c2] # "idle"
  /\ c1 \notin finishedBefore[c2] /\ c2 \notin finishedBefore[c1]
(* call c has run with no other call in flight *)
Alone(c) == \A o \in Calls \ {c} : pc[o] = "idle" \/ o \in finishedBefore[c]

RECURSIVE SumDeltas(_)
SumDeltas(S) ==
  IF S = {} THEN 0
  ELSE LET c == CHOOSE x \in S : TRUE IN adjustment[c].delta + SumDeltas(S \ {c})

StoredRows(p) == RowsOf(p[1], p[2])
StoredQuantity(p) ==
  IF StoredRows(p) = {} THEN 0 ELSE (CHOOSE r \in StoredRows(p) : TRUE).quantity
StoredVersion(p) ==
  IF StoredRows(p) = {} THEN 0 ELSE (CHOOSE r \in StoredRows(p) : TRUE).version
InitialRows(p) == {r \in initial : r.variantID = p[1] /\ r.warehouseID = p[2]}
InitialQuantity(p) ==
  IF InitialRows(p) = {} THEN 0 ELSE (CHOOSE r \in InitialRows(p) : TRUE).quantity
SucceededOn(p) == {c \in Calls : Succeeded(c) /\ OnPair(c, p)}

(* ------------------------------- claims --------------------------------- *)
(* C1: for every pair, in every state (so also once all calls have         *)
(* returned), the stored quantity is the initial quantity (0 if no row     *)
(* existed) plus the sum of the deltas of the calls that returned success; *)
(* calls that returned an error contribute nothing.                        *)
C1_NoLostNoPhantomUpdate ==
  \A p \in Pairs :
    StoredQuantity(p) = InitialQuantity(p) + SumDeltas(SucceededOn(p))

(* three calls on one pair have returned: two concurrent ones succeeded and *)
(* one failed with an InternalError                                         *)
C1_Witness ==
  /\ \A c \in Calls : Returned(c)
  /\ \E c1, c2, c3 \in Calls :
       /\ PairOf(c1) = PairOf(c2) /\ PairOf(c2) = PairOf(c3)
       /\ Concurrent(c1, c2) /\ Succeeded(c1) /\ Succeeded(c2)
       /\ Failed(c3, "INTERNAL_ERROR") /\ adjustment[c3].delta # 0

(* C2: every committed row has a quantity >= 0; and the CHECK constraint   *)
(* of the table never has to refuse a write of the repository, whose own   *)
(* validation already keeps the quantity it writes >= 0.                   *)
C2_QuantityNeverNegative ==
  /\ \A r \in rows : r.quantity >= 0
  /\ \A c \in Calls : err[c].cause # CheckViolation

(* a decrement to 0 was committed and a decrement below 0 was refused *)
C2_Witness ==
  /\ \E r \in rows : r.quantity = 0 /\ r.version > 1 /\ r \notin initial
  /\ \E c \in Calls : Failed(c, "VALIDATION_ERROR") /\ ReadRow(c)

(* C3: at most one committed row per (variantID, warehouseID) pair, also   *)
(* when several first adjustments of an absent pair all read no row.       *)
C3_OneRowPerPair ==
  \A r1, r2 \in rows :
    (r1.variantID = r2.variantID /\ r1.warehouseID = r2.warehouseID) => r1 = r2

(* two concurrent first adjustments both reached the INSERT (both read no  *)
(* row), and one of them committed                                         *)
C3_Witness ==
  \E c1, c2 \in Calls :
    /\ Concurrent(c1, c2) /\ PairOf(c1) = PairOf(c2)
    /\ Succeeded(c1) /\ stockLevel[c1].id = NewID(c1)
    /\ Returned(c2) /\ err[c2].cause = UniqueViolation

(* a call commits its UPDATE on pair p in this step *)
CommitsUpdateOn(p) ==
  \E c \in Calls :
    /\ pc[c] = "CommitUpdate" /\ PairOf(c) = p
    /\ pc'[c] = "done" /\ err'[c] = NoError

(* C4: in every step, the version of an existing row goes from v to v+1    *)
(* when the step commits a mutation of the row and stays v otherwise; so   *)
(* it never decreases and no two committed mutations leave the same value. *)
C4_VersionStep ==
  [][\A p \in Pairs :
       StoredVersion(p) # 0 =>
         IF CommitsUpdateOn(p)
         THEN StoredVersion(p)' = StoredVersion(p) + 1
         ELSE StoredVersion(p)' = StoredVersion(p)]_vars

(* a row has been mutated twice since it was created *)
C4_Witness == \E r \in rows : r.version >= 3 /\ r.id <= NumCalls

(* C5: for a pair that starts with no row, the stored version is the       *)
(* number of calls on the pair that returned success (no row when none).   *)
C5_VersionCountsSuccesses ==
  \A p \in Pairs :
    InitialRows(p) = {} =>
      /\ StoredVersion(p) = Cardinality(SucceededOn(p))
      /\ (SucceededOn(p) = {} => StoredRows(p) = {})

(* two successes and one failed call on a pair that started with no row *)
C5_Witness ==
  \E p \in Pairs :
    /\ InitialRows(p) = {} /\ StoredVersion(p) = 2
    /\ \E c \in Calls : OnPair(c, p) /\ Returned(c) /\ ~Succeeded(c)

(* C6: a call that read an existing row whose quantity + delta is < 0      *)
(* returns ValidationError at its next step, and that step leaves every    *)
(* committed row as it was: the row the call read (quantity, version,      *)
(* updatedAt) is still the stored row.                                     *)
C6_NegativeResultRejected ==
  [][\A c \in Calls :
       (/\ pc[c] = "Update" /\ pc'[c] # "Update"
        /\ currentStock[c].quantity + adjustment[c].delta < 0)
       => /\ pc'[c] = "done" /\ err'[c] = NewValidationError
          /\ stockLevel'[c] = ZeroStockLevel
          /\ rows' = rows /\ currentStock[c] \in rows']_vars

(* a decrement below 0 of an existing row was refused, and the row is as   *)
(* the call read it                                                        *)
C6_Witness ==
  \E c \in Calls :
    /\ Failed(c, "VALIDATION_ERROR") /\ ReadRow(c)
    /\ adjustment[c].delta < 0 /\ currentStock[c] \in rows

(* C7: a call that read no row: with delta < 0 it returns ValidationError  *)
(* and no row is created; with delta > 0 and no other call in flight its   *)
(* INSERT is accepted unless the storage fails, and its commit adds the    *)
(* row {quantity = delta, version = 1} and returns that row.               *)
C7_FirstAdjustment ==
  [][\A c \in Calls :
       /\ (pc[c] = "Insert" /\ pc'[c] # "Insert" /\ adjustment[c].delta < 0)
          => /\ pc'[c] = "done" /\ err'[c] = NewValidationError
             /\ rows' = rows /\ txWrite'[c] = NoWrite
       /\ (pc[c] = "Insert" /\ pc'[c] # "Insert" /\ adjustment[c].delta > 0 /\ Alone(c))
          => \/ pc'[c] = "CommitInsert"
             \/ pc'[c] = "done" /\ err'[c] = NewInternalError(StorageFailure)
       /\ (pc[c] = "CommitInsert" /\ pc'[c] = "done")
          => IF err'[c] = NoError
             THEN /\ stockLevel'[c].quantity = adjustment[c].delta
                  /\ stockLevel'[c].version = 1
                  /\ stockLevel'[c].variantID = adjustment[c].variantID
                  /\ stockLevel'[c].warehouseID = adjustment[c].warehouseID
                  /\ rows' = rows \cup {stockLevel'[c]}
                  /\ stockLevel'[c] \notin rows
             ELSE /\ err'[c] = NewInternalError(StorageFailure)
                  /\ rows' = rows]_vars

(* a lone first adjustment with delta > 0 created its row, and a first     *)
(* adjustment with delta < 0 of another pair was refused and left no row   *)
C7_Witness ==
  \E c1, c2 \in Calls :
    /\ Alone(c1) /\ Succeeded(c1) /\ stockLevel[c1].id = NewID(c1)
    /\ stockLevel[c1] \in rows /\ stockLevel[c1].quantity > 0
    /\ Failed(c2, "VALIDATION_ERROR") /\ adjustment[c2].delta < 0
    /\ ~ReadRow(c2) /\ StoredRows(PairOf(c2)) = {}

(* two concurrent calls on one pair have returned, and their locking reads *)
(* returned the same version of the existing row                           *)
SameStart(c1, c2) ==
  /\ Concurrent(c1, c2) /\ PairOf(c1) = PairOf(c2)
  /\ Returned(c1) /\ Returned(c2)
  /\ ReadRow(c1) /\ ReadRow(c2)
  /\ currentStock[c1].version = currentStock[c2].version

(* call c3 reissues the request of call l after l returned *)
Reissue(c3, l) == l \in finishedBefore[c3] /\ adjustment[c3] = adjustment[l]

(* C8 as stated: the two calls yield exactly one success and one           *)
(* ConflictError, and the reissued conflicted delta succeeds.              *)
C8_OneSuccessOneConflict ==
  \A c1, c2 \in Calls :
    SameStart(c1, c2) =>
      \E w, l \in {c1, c2} :
        /\ w # l /\ Succeeded(w) /\ Failed(l, "CONFLICT")
        /\ \A c3 \in Calls : (Reissue(c3, l) /\ Returned(c3)) => Succeeded(c3)

(* C8 as amended: the two calls yield at most one success and no           *)
(* ConflictError (under the row lock the second reads only after the first *)
(* rolled back), and the reissued delta of the one that failed succeeds    *)
(* unless the storage fails or the delta would make the quantity read      *)
(* negative (ValidationError).                                             *)
C8_AtMostOneSuccessNoConflict ==
  \A c1, c2 \in Calls :
    SameStart(c1, c2) =>
      /\ ~(Succeeded(c1) /\ Succeeded(c2))
      /\ ~Failed(c1, "CONFLICT") /\ ~Failed(c2, "CONFLICT")
      /\ \A l \in {c1, c2}, c3 \in Calls :
           (~Succeeded(l) /\ Reissue(c3, l) /\ Returned(c3)) =>
             \/ Succeeded(c3)
             \/ err[c3] = NewInternalError(StorageFailure)
             \/ /\ err[c3] = NewValidationError /\ ReadRow(c3)
                /\ currentStock[c3].quantity + adjustment[c3].delta < 0

(* two concurrent calls read the same version; the first was refused, the  *)
(* second succeeded, and the reissued delta of the first then succeeded    *)
C8_Witness ==
  \E c1, c2, c3 \in Calls :
    /\ SameStart(c1, c2) /\ Failed(c1, "VALIDATION_ERROR") /\ Succeeded(c2)
    /\ Reissue(c3, c1) /\ Succeeded(c3)

(* C9 as stated: the call whose INSERT failed on the uniqueness constraint *)
(* returns a ConflictError, not an InternalError.                          *)
C9_UniqueLoserGetsConflict ==
  \A c \in Calls :
    (Returned(c) /\ err[c].cause = UniqueViolation) => err[c].category = "CONFLICT"

(* C10 as stated (Scenario B): of two concurrent first adjustments of +10, *)
(* one succeeds with {quantity 10, version 1}; the other, when the storage *)
(* itself did not fail, observes a conflict; and its retry of the same     *)
(* delta, when it succeeds, returns {quantity 20, version 2}.              *)
C10_ScenarioB ==
  \A c1, c2 \in Calls :
    (/\ Concurrent(c1, c2) /\ PairOf(c1) = PairOf(c2)
     /\ adjustment[c1].delta = ScenarioDelta /\ adjustment[c2].delta = ScenarioDelta
     /\ InitialRows(PairOf(c1)) = {}
     /\ Succeeded(c1) /\ stockLevel[c1].id = NewID(c1)
     /\ Returned(c2) /\ ~Succeeded(c2) /\ err[c2].cause # StorageFailure)
    => /\ stockLevel[c1].quantity = ScenarioDelta /\ stockLevel[c1].version = 1
       /\ err[c2].category = "CONFLICT"
       /\ \A c3 \in Calls :
            (Reissue(c3, c2) /\ Succeeded(c3) /\ Alone(c3)) =>
              /\ stockLevel[c3].quantity = 2 * ScenarioDelta
              /\ stockLevel[c3].version = 2

(* the transactions the next statement of call c has to wait for: the      *)
(* holder of the lock of the row it selects or updates, the transaction     *)
(* with an uncommitted insert of the key it inserts                         *)
Blockers(c) ==
  LET v == adjustment[c].variantID
      w == adjustment[c].warehouseID
  IN
  IF pc[c] = "Select"
  THEN {o \in Calls \ {c} : \E r \in RowsOf(v, w) : <<o, r.id>> \in locks}
  ELSE IF pc[c] = "Insert"
  THEN {o \in Calls \ {c} :
          /\ txWrite[o].op = "insert"
          /\ \E r \in txWrite[o].new : r.variantID = v /\ r.warehouseID = w}
  ELSE IF pc[c] = "Update"
  THEN {o \in Calls \ {c} : \E r \in VersionGuard(c) : <<o, r.id>> \in locks}
  ELSE {}

(* call c is inside its transaction *)
InFlight(c) == pc[c] \notin {"idle", "done"}

(* every call that overlaps call c works on another pair *)
AloneOnPair(c) ==
  \A o \in Calls \ {c} :
    pc[o] = "idle" \/ o \in finishedBefore[c] \/ PairOf(o) # PairOf(c)

Commits(c) ==
  /\ pc[c] \in {"CommitInsert", "CommitUpdate"}
  /\ pc'[c] = "done" /\ err'[c] = NoError

(* C12: for every pair, the stored row changes only in the step in which a *)
(* call on the pair commits, and every call that returns success commits   *)
(* so; the commit raises the stored version by 1 (from 0 to 1 for the      *)
(* first) and makes the stored quantity the one stored just before plus    *)
(* the delta of the call (the delta for the first); and the row the        *)
(* committing call read is the row stored just before its commit (no row   *)
(* for an insert), never an older one.                                     *)
C12_LinearCommits ==
  [][/\ \A p \in Pairs :
          StoredRows(p)' # StoredRows(p) =>
            \E c \in Calls :
              /\ PairOf(c) = p /\ Commits(c)
              /\ Cardinality(StoredRows(p)') = 1
              /\ StoredVersion(p)' = StoredVersion(p) + 1
              /\ StoredQuantity(p)' = StoredQuantity(p) + adjustment[c].delta
              /\ IF pc[c] = "CommitUpdate"
                 THEN StoredRows(p) = {currentStock[c]}
                 ELSE StoredRows(p) = {}
     /\ \A c \in Calls :
          (pc'[c] = "done" /\ pc[c] # "done" /\ err'[c] = NoError) =>
            /\ Commits(c)
            /\ StoredRows(PairOf(c))' # StoredRows(PairOf(c))]_vars

(* three calls, two of them concurrent, have committed on one pair that    *)
(* started with a row                                                      *)
C12_Witness ==
  \E p \in Pairs :
    /\ InitialRows(p) # {} /\ Cardinality(SucceededOn(p)) = NumCalls
    /\ \E c1, c2 \in Calls : Concurrent(c1, c2)

(* call c returns an error in this step *)
ReturnsError(c) == pc[c] # "done" /\ pc'[c] = "done" /\ err'[c] # NoError

(* row r is what a call that returned success committed *)
CommittedBySuccess(r) ==
  \E c \in Calls :
    /\ Succeeded(c) /\ PairOf(c) = <<r.variantID, r.warehouseID>>
    /\ r.quantity = stockLevel[c].quantity /\ r.version = stockLevel[c].version

(* C13: a step in which a call returns an error, of whatever category and  *)
(* from whatever statement (a failed commit included), leaves the          *)
(* committed rows as they were and nothing of its transaction behind; a    *)
(* locking read returns a committed row only; and every row a reader can   *)
(* see was there at the start or was committed by a call that returned     *)
(* success.                                                                *)
C13_ErrorsRollBack ==
  [][/\ \A c \in Calls :
          ReturnsError(c) =>
            /\ rows' = rows /\ txWrite'[c] = NoWrite
            /\ \A l \in locks' : l[1] # c
            /\ stockLevel'[c] = ZeroStockLevel
     /\ \A c \in Calls :
          currentStock'[c] # currentStock[c] => currentStock'[c] \in rows
     /\ \A r \in rows' : r \in initial \/ CommittedBySuccess(r)']_vars

(* all calls have returned, none with success, two of them after their     *)
(* INSERT or UPDATE statement had been executed (the clock ticks at each   *)
(* such statement), and the table is as it was at the start                *)
C13_Witness ==
  /\ \A c \in Calls : Returned(c) /\ ~Succeeded(c)
  /\ clock = 3 /\ rows = initial
  /\ \E c \in Calls : Failed(c, "VALIDATION_ERROR") /\ ReadRow(c)

(* C14: the step in which AdjustStock is called with delta = 0 is the step *)
(* in which it returns ValidationError: the call never reaches a statement *)
(* of UpdateStockLevel (no transaction, no read), and the step changes no  *)
(* lock, no uncommitted write and no committed row.                        *)
C14_ZeroDeltaRejected ==
  [][\A c \in Calls :
       (pc[c] = "idle" /\ pc'[c] # "idle" /\ adjustment'[c].delta = 0) =>
         /\ pc'[c] = "done" /\ err'[c] = NewValidationError
         /\ stockLevel'[c] = ZeroStockLevel /\ currentStock'[c] = ZeroStockLevel
         /\ locks' = locks /\ txWrite' = txWrite /\ rows' = rows]_vars

(* a call with delta 0 on a pair that has a row was refused while another  *)
(* call on the pair was inside its transaction, holding the lock           *)
C14_Witness ==
  \E c, o \in Calls :
    /\ adjustment[c].delta = 0 /\ Failed(c, "VALIDATION_ERROR")
    /\ StoredRows(PairOf(c)) # {}
    /\ PairOf(o) = PairOf(c) /\ pc[o] = "CommitUpdate" /\ o \notin finishedBefore[c]

(* C15: for every call that has returned, the category of the error the   *)
(* service returned is the category of the error the repository returned:  *)
(* ConflictError for ConflictError, ValidationError for ValidationError,   *)
(* InternalError with the same cause for every other error, typed or not,  *)
(* and no error for no error; and conversely the service returns           *)
(* ConflictError only for a ConflictError of the repository, and           *)
(* ValidationError only for a ValidationError of the repository or its own *)
(* refusal of a zero delta.                                                *)
C15_CategoryPreserved ==
  \A c \in Calls :
    Returned(c) =>
      /\ repoErr[c].category = "CONFLICT" <=> err[c].category = "CONFLICT"
      /\ repoErr[c].category = "VALIDATION_ERROR" =>
           err[c].category = "VALIDATION_ERROR"
      /\ err[c].category = "VALIDATION_ERROR" =>
           \/ repoErr[c].category = "VALIDATION_ERROR"
           \/ repoErr[c] = NoError /\ adjustment[c].delta = 0
      /\ (repoErr[c] # NoError
          /\ repoErr[c].category \notin {"CONFLICT", "VALIDATION_ERROR"}) <=>
           err[c].category = "INTERNAL_ERROR"
      /\ err[c].category = "INTERNAL_ERROR" => err[c].cause = repoErr[c].cause
      /\ (repoErr[c] = NoError /\ adjustment[c].delta # 0) <=> err[c] = NoError

(* three calls have returned: the repository gave a ConflictError to one,  *)
(* a ValidationError to another and an untyped error to the third          *)
C15_Witness ==
  \E c1, c2, c3 \in Calls :
    /\ Returned(c1) /\ repoErr[c1] = NewConflictError
    /\ Returned(c2) /\ repoErr[c2] = NewValidationError
    /\ Returned(c3) /\ repoErr[c3] = UntypedError
                    /\ err[c3] = NewInternalError(UntypedError.cause)

(* how far a call is: not started, transaction open and about to read,    *)
(* about to write (INSERT or UPDATE), about to commit, returned            *)
Progress(c) ==
  CASE pc[c] = "idle" -> 0
    [] pc[c] = "Select" -> 1
    [] pc[c] \in {"Insert", "Update"} -> 2
    [] pc[c] \in {"CommitInsert", "CommitUpdate"} -> 3
    [] pc[c] = "done" -> 4

(* C16: a call only moves forward: every step of a call takes it strictly  *)
(* further (one BeginTx, one locking read, one of INSERT or UPDATE, one    *)
(* Commit), a refused write ends the call in that step with the error, and *)
(* a call that has returned stays returned with the same result.           *)
C16_NoRetry ==
  [][\A c \in Calls :
       /\ pc'[c] # pc[c] => Progress(c)' > Progress(c)
       /\ (pc[c] \in {"Insert", "Update"} /\ pc'[c] # pc[c]
           /\ repoErr'[c] # NoError) =>
            /\ pc'[c] = "done" /\ err'[c] = ServiceError(repoErr'[c])
            /\ txWrite'[c] = NoWrite
       /\ pc[c] = "done" =>
            /\ pc'[c] = "done" /\ err'[c] = err[c]
            /\ stockLevel'[c] = stockLevel[c] /\ currentStock'[c] = currentStock[c]]_vars

(* a call whose INSERT was refused (another call had created the row) has  *)
(* returned the error without reading again, and the other call's row is   *)
(* stored                                                                  *)
C16_Witness ==
  \E c, o \in Calls :
    /\ Returned(c) /\ repoErr[c] = NewDBError(UniqueViolation) /\ ~ReadRow(c)
    /\ Succeeded(o) /\ PairOf(o) = PairOf(c)
    /\ StoredRows(PairOf(c)) = {stockLevel[o]}

(* the three calls of Scenario A, all on pair p *)
ScenarioA(p, c1, c2, c3) ==
  /\ c1 = 1 /\ c2 = 2 /\ c3 = 3
  /\ \A c \in {c1, c2, c3} : OnPair(c, p) /\ adjustment[c].delta = DeltaA(c)

(* C17 (Scenario A): on a pair with no row, of the sequential calls +5,    *)
(* -5, -1 the first, once returned, has returned {quantity 5, version 1},  *)
(* the second {quantity 0, version 2}, and the third ValidationError,      *)
(* each unless the storage failed in it or in a call before it; and once   *)
(* the first two have succeeded the stored row is {quantity 0, version 2}  *)
(* for good, also after the third call, whatever it returned.              *)
C17_ScenarioA ==
  \A p \in Pairs :
    \A c1, c2, c3 \in Calls :
      ScenarioA(p, c1, c2, c3) =>
        /\ (Returned(c1) /\ err[c1].cause # StorageFailure) =>
             /\ Succeeded(c1)
             /\ stockLevel[c1].quantity = 5 /\ stockLevel[c1].version = 1
        /\ (Succeeded(c1) /\ Returned(c2) /\ err[c2].cause # StorageFailure) =>
             /\ Succeeded(c2)
             /\ stockLevel[c2].quantity = 0 /\ stockLevel[c2].version = 2
        /\ (Succeeded(c1) /\ Succeeded(c2)) =>
             /\ StoredQuantity(p) = 0 /\ StoredVersion(p) = 2
             /\ (Returned(c3) /\ err[c3].cause # StorageFailure) =>
                  err[c3] = NewValidationError

(* the third call of Scenario A was refused after the first two succeeded, *)
(* and the row it read, {quantity 0, version 2}, is still the stored row   *)
C17_Witness ==
  \E p \in Pairs :
    \E c1, c2, c3 \in Calls :
      /\ ScenarioA(p, c1, c2, c3)
      /\ Succeeded(c1) /\ Succeeded(c2) /\ Failed(c3, "VALIDATION_ERROR")
      /\ ReadRow(c3) /\ StoredRows(p) = {currentStock[c3]}
      /\ currentStock[c3].quantity = 0 /\ currentStock[c3].version = 2

(* the successful call c created the row (its locking read found none) *)
Inserted(c) == Succeeded(c) /\ ~ReadRow(c)

(* C18 as stated: a successful adjustment is answered with 200 OK when it  *)
(* updated an existing row and with 201 Created when it inserted the row.  *)
C18_CreatedOnInsert ==
  \A c \in Calls :
    Succeeded(c) =>
      status[c] = IF Inserted(c) THEN StatusCreated ELSE StatusOK

(* the body of the request of call c could not be decoded *)
Undecodable(c) == Returned(c) /\ adjustment[c] = NoRequest

(* C19: for every call that has returned an error, the status answered is  *)
(* fixed by the outcome: 400 for an undecodable body, for a zero delta and *)
(* for a ValidationError of the repository (which it returns exactly when  *)
(* the resulting quantity is negative), 409 for a ConflictError of the     *)
(* repository (the guarded UPDATE matched no row), 500 for a storage or    *)
(* transaction failure; and the status is the one the repository's own     *)
(* error maps to, whatever the service wrapped it in.                      *)
C19_StatusByOutcome ==
  \A c \in Calls :
    (Returned(c) /\ err[c] # NoError) =>
      /\ Undecodable(c) => status[c] = StatusBadRequest
      /\ (~Undecodable(c) /\ adjustment[c].delta = 0) => status[c] = StatusBadRequest
      /\ repoErr[c] = NewValidationError =>
           /\ status[c] = StatusBadRequest
           /\ currentStock[c].quantity + adjustment[c].delta < 0
      /\ repoErr[c] = NewConflictError => status[c] = StatusConflict
      /\ repoErr[c].cause = StorageFailure => status[c] = StatusInternalServerError
      /\ repoErr[c] # NoError => status[c] = MapToHTTPStatus(repoErr[c])
      /\ status[c] = StatusBadRequest =>
           \/ Undecodable(c) \/ adjustment[c].delta = 0
           \/ repoErr[c] = NewValidationError

(* three calls were answered: an undecodable body with 400, a decrement    *)
(* below zero of an existing row with 400, a storage failure with 500      *)
C19_Witness ==
  \E c1, c2, c3 \in Calls :
    /\ Undecodable(c1) /\ status[c1] = StatusBadRequest
    /\ repoErr[c2] = NewValidationError /\ ReadRow(c2) /\ status[c2] = StatusBadRequest
    /\ repoErr[c3].cause = StorageFailure /\ status[c3] = StatusInternalServerError

(* the requests the limiter has forwarded to the wrapped handler *)
ForwardedRequests == {r \in Requests : answer[r] = Forwarded}

(* C20 as stated: whatever the interleaving of the requests of one client  *)
(* IP within a window, at most limit of them are forwarded to the wrapped  *)
(* handler, and a request that is not forwarded is answered 429 (unless    *)
(* reading the cache failed).                                              *)
C20_AtMostLimitForwarded ==
  /\ Cardinality(ForwardedRequests) <= limit
  /\ \A r \in Requests :
       (rlPc[r] = "done" /\ answer[r] # Forwarded) =>
         answer[r] \in {StatusTooManyRequests, StatusInternalServerError}

(* the calls that hold the row of pair p: between their locking read of   *)
(* the row and their commit or rollback                                    *)
Holders(p) ==
  {c \in Calls : PairOf(c) = p /\ pc[c] \in {"Update", "CommitUpdate"}}

(* C21: for every pair at most one call is between its locking read of    *)
(* the row and its commit or rollback; it holds the lock of the row, and   *)
(* the row it read is the stored row of the pair (the latest committed     *)
(* quantity and version) for as long as it is there.                       *)
C21_OneTransactionPerRow ==
  \A p \in Pairs :
    /\ Cardinality(Holders(p)) <= 1
    /\ \A c \in Holders(p) :
         /\ <<c, currentStock[c].id>> \in locks
         /\ StoredRows(p) = {currentStock[c]}

(* a call that overlapped a successful update of the same row has read,    *)
(* after that commit, the quantity and version the commit wrote            *)
C21_Witness ==
  \E c1, c2 \in Calls :
    /\ Concurrent(c1, c2) /\ PairOf(c1) = PairOf(c2)
    /\ Succeeded(c1) /\ ReadRow(c1)
    /\ c2 \in Holders(PairOf(c2))
    /\ currentStock[c2].version = stockLevel[c1].version
    /\ currentStock[c2].quantity = stockLevel[c1].quantity

(* the version of the row of pair p at the start, 0 when there was none *)
InitialVersionOf(p) ==
  IF InitialRows(p) = {} THEN 0 ELSE (CHOOSE r \in InitialRows(p) : TRUE).version

(* C22: in the model whose read takes no lock, for every pair and in every *)
(* state there is at most one row, its quantity is the initial quantity    *)
(* plus the sum of the deltas of the calls that returned success and is    *)
(* never negative (nor does the CHECK constraint ever have to refuse a     *)
(* write), and its version is the initial version plus the number of       *)
(* calls that returned success.                                            *)
C22_VersionGuardSuffices ==
  \A p \in Pairs :
    /\ Cardinality(StoredRows(p)) <= 1
    /\ StoredQuantity(p) = InitialQuantity(p) + SumDeltas(SucceededOn(p))
    /\ StoredQuantity(p) >= 0
    /\ StoredVersion(p) = InitialVersionOf(p) + Cardinality(SucceededOn(p))
    /\ \A c \in Calls : err[c].cause # CheckViolation

(* without the lock two calls read the same version of an existing row,    *)
(* one committed and the other was refused with a ConflictError            *)
C22_Witness ==
  \E c1, c2 \in Calls :
    /\ SameStart(c1, c2) /\ InitialRows(PairOf(c1)) # {}
    /\ Succeeded(c1) /\ Failed(c2, "CONFLICT")
    /\ StoredVersion(PairOf(c1)) = currentStock[c2].version + 1

(* the deadline of call c expires in this step, while it waits for the row *)
(* lock or executes its read, its write or its commit: the statement       *)
(* fails and the call returns                                              *)
DeadlineExpires(c) ==
  /\ InFlight(c) /\ pc'[c] = "done"
  /\ repoErr'[c] = NewDBError(StorageFailure)

(* C23: a step in which the deadline of a call expires, whether the call   *)
(* waits for the row lock or is at its write or at its commit, returns an  *)
(* InternalError and no stock level, leaves the committed rows as they     *)
(* were, discards the uncommitted write of the call (which is not among    *)
(* the rows a reader can see) and releases its lock.                       *)
C23_DeadlineRollsBack ==
  [][\A c \in Calls :
       DeadlineExpires(c) =>
         /\ err'[c] = NewInternalError(StorageFailure)
         /\ stockLevel'[c] = ZeroStockLevel
         /\ rows' = rows
         /\ \A r \in txWrite[c].new : r \notin rows'
         /\ txWrite'[c] = NoWrite
         /\ \A l \in locks' : l[1] # c]_vars

(* the first call, alone, has read the row and executed its UPDATE (the    *)
(* one tick of the clock), then failed at its commit, and the table is as  *)
(* it was; a second call on the pair, started meanwhile, has failed        *)
(* without having read the row                                             *)
C23_Witness ==
  /\ Failed(1, "INTERNAL_ERROR") /\ ReadRow(1) /\ clock = 2
  /\ Failed(2, "INTERNAL_ERROR") /\ ~ReadRow(2) /\ Concurrent(1, 2)
  /\ PairOf(1) = PairOf(2)
  /\ rows = initial

(* the UPDATE statement of call c is executed in this step (it passed the  *)
(* check of the new quantity and the statement did not fail)               *)
UpdateExecuted(c) ==
  /\ pc[c] = "Update" /\ pc'[c] # "Update"
  /\ repoErr'[c] \notin {NewValidationError, NewDBError(StorageFailure),
                         NewDBError(CheckViolation)}

(* C24: when the UPDATE of a call matches no row (the stored version is    *)
(* no longer the version read), the step returns ConflictError and no      *)
(* stock level without a commit: the rows stay as they were, and the row   *)
(* of the pair is the one a competing call that returned success           *)
(* committed, with a higher version than the one read. When it matches a   *)
(* row, it is the one row read, the call goes on to its commit, and the    *)
(* commit, unless it fails, stores the new quantity and the next version   *)
(* and returns success.                                                    *)
C24_ZeroRowsConflict ==
  [][\A c \in Calls :
       /\ UpdateExecuted(c) =>
            IF VersionGuard(c) = {}
            THEN /\ pc'[c] = "done" /\ err'[c].category = "CONFLICT"
                 /\ stockLevel'[c] = ZeroStockLevel
                 /\ rows' = rows /\ txWrite'[c] = NoWrite
                 /\ \A r \in StoredRows(PairOf(c)) :
                      /\ r.version > currentStock[c].version
                      /\ \E o \in Calls \ {c} :
                           /\ Succeeded(o) /\ PairOf(o) = PairOf(c)
                           /\ stockLevel[o].quantity = r.quantity
                           /\ stockLevel[o].version = r.version
            ELSE /\ VersionGuard(c) = {currentStock[c]}
                 /\ pc'[c] = "CommitUpdate" /\ rows' = rows
       /\ (pc[c] = "CommitUpdate" /\ pc'[c] = "done"
             /\ repoErr'[c] # NewDBError(StorageFailure)) =>
            /\ err'[c] = NoError
            /\ StoredQuantity(PairOf(c))' =
                 currentStock[c].quantity + adjustment[c].delta
            /\ StoredVersion(PairOf(c))' = currentStock[c].version + 1]_vars

(* a call was refused with ConflictError after a concurrent call on the    *)
(* pair had committed the version after the one both had read, and the     *)
(* stored row is the one of that call                                      *)
C24_Witness ==
  \E c1, c2 \in Calls :
    /\ Concurrent(c1, c2) /\ PairOf(c1) = PairOf(c2)
    /\ Failed(c2, "CONFLICT") /\ Succeeded(c1)
    /\ currentStock[c1] = currentStock[c2] /\ ReadRow(c2)
    /\ StoredQuantity(PairOf(c2)) = stockLevel[c1].quantity
    /\ StoredVersion(PairOf(c2)) = stockLevel[c1].version
    /\ \A c3 \in Calls \ {c1, c2} : pc[c3] = "idle"

(* the state of the request of call c: not yet received, inside           *)
(* s.repo.UpdateStockLevel (received, validated, engine applied), or the   *)
(* terminal state that the returned error stands for                       *)
RequestState(c) ==
  IF pc[c] = "idle" THEN "NOT_RECEIVED"
  ELSE IF pc[c] # "done" THEN "ENGINE_APPLIED"
  ELSE IF err[c] = NoError THEN "SUCCEEDED"
  ELSE IF err[c].category = "CONFLICT" THEN "CONFLICT"
  ELSE IF err[c].category = "VALIDATION_ERROR" THEN "INVALID"
  ELSE IF err[c].category = "INTERNAL_ERROR" THEN "FAILED"
  ELSE "UNKNOWN"

TerminalStates == {"SUCCEEDED", "CONFLICT", "INVALID", "FAILED"}

(* the service has called s.repo.UpdateStockLevel for call c: the call is  *)
(* inside it, or it has returned a stock level or an error                 *)
EngineApplied(c) ==
  \/ InFlight(c)
  \/ pc[c] = "done" /\ (err[c] = NoError \/ repoErr[c] # NoError)

(* C25: a request is received, validated and handed to the repository in   *)
(* this order and ends in exactly one terminal state, which it keeps: a    *)
(* request with delta 0 goes from reception straight to INVALID and the    *)
(* repository is never called for it; any other request reaches the        *)
(* repository in the step it is received; a request in the repository     *)
(* stays there or ends in SUCCEEDED, CONFLICT, INVALID or FAILED; a        *)
(* terminal state, its error and its stock level never change again; and   *)
(* what a request returns is decided by its own delta and by what the      *)
(* repository returned for it alone, whatever the requests before it did.  *)
C25_RequestStateMachine ==
  [][\A c \in Calls :
       /\ RequestState(c) = "NOT_RECEIVED" /\ RequestState(c)' # "NOT_RECEIVED" =>
            IF adjustment'[c].delta = 0
            THEN RequestState(c)' = "INVALID" /\ ~EngineApplied(c)'
            ELSE /\ EngineApplied(c)'
                 /\ RequestState(c)' \in {"ENGINE_APPLIED", "FAILED"}
       /\ RequestState(c) = "ENGINE_APPLIED" =>
            /\ RequestState(c)' \in {"ENGINE_APPLIED"} \cup TerminalStates
            /\ adjustment[c].delta # 0 /\ adjustment'[c] = adjustment[c]
       /\ RequestState(c) \in TerminalStates =>
            /\ RequestState(c)' = RequestState(c)
            /\ err'[c] = err[c] /\ stockLevel'[c] = stockLevel[c]
       /\ RequestState(c) \in {"NOT_RECEIVED", "ENGINE_APPLIED"} \cup TerminalStates
       /\ RequestState(c)' \in TerminalStates =>
            /\ err'[c] = IF adjustment'[c].delta = 0 THEN NewValidationError
                         ELSE IF repoErr'[c] = NoError THEN NoError
                         ELSE IF repoErr'[c].category \in {"CONFLICT", "VALIDATION_ERROR"}
                         THEN [category |-> repoErr'[c].category, cause |-> ""]
                         ELSE NewInternalError(repoErr'[c].cause)
            /\ (err'[c] # NoError) => stockLevel'[c] = ZeroStockLevel]_vars

(* three requests have ended in three terminal states: one succeeded, one  *)
(* with delta 0 was refused without the repository being called, and one   *)
(* was refused by the repository for a negative resulting quantity         *)
C25_Witness ==
  \E c1, c2, c3 \in Calls :
    /\ RequestState(c1) = "SUCCEEDED"
    /\ RequestState(c2) = "INVALID" /\ ~EngineApplied(c2)
    /\ RequestState(c3) = "INVALID" /\ EngineApplied(c3)

(* row r2 is row r, as it was or adjusted in place: the same id, pair and  *)
(* creation time                                                           *)
SameRow(r, r2) ==
  /\ r2.id = r.id /\ r2.createdAt = r.createdAt
  /\ r2.variantID = r.variantID /\ r2.warehouseID = r.warehouseID

(* C26: in every step, every stored row is still stored afterwards, as it  *)
(* was or adjusted in place (same id, pair and creation time), and as the  *)
(* only row with its id; and a row that was not stored before the step is  *)
(* the row of a pair that had none, with version 1 and the delta as        *)
(* quantity, stored by the commit of the insert of a call on that pair     *)
(* which returns success in this step.                                     *)
C26_CreatedOnceNeverDeleted ==
  [][/\ \A r \in rows :
          /\ \E r2 \in rows' : SameRow(r, r2)
          /\ \A r2, r3 \in rows' : (r2.id = r.id /\ r3.id = r.id) => r2 = r3
     /\ \A r2 \in rows' :
          (\A r \in rows : ~SameRow(r, r2)) =>
            \E c \in Calls :
              /\ pc[c] = "CommitInsert" /\ Commits(c)
              /\ PairOf(c) = <<r2.variantID, r2.warehouseID>>
              /\ StoredRows(PairOf(c)) = {}
              /\ r2.version = InitialVersion
              /\ r2.quantity = adjustment[c].delta
              /\ stockLevel'[c] = r2]_vars

(* the row of a pair that had none was created by the first call and       *)
(* adjusted twice since: it is the row the first call returned, with its   *)
(* id and creation time, at the third version                              *)
C26_Witness ==
  \E p \in Pairs :
    /\ InitialRows(p) = {} /\ Inserted(1) /\ PairOf(1) = p
    /\ \E r \in StoredRows(p) :
         /\ SameRow(stockLevel[1], r)
         /\ r.version = NumCalls /\ r.updatedAt > r.createdAt

(* C27: with the locking read, no call is ever refused with a             *)
(* ConflictError; a call that has read a row and whose new quantity is not *)
(* negative finds, at its UPDATE, the row it read as the one row with the  *)
(* version it read, so that the UPDATE affects exactly that row; and the   *)
(* only call that a competing transaction makes fail is the loser of the   *)
(* race of two first inserts: it had read no row, and a concurrent call on *)
(* its pair has inserted the row.                                          *)
C27_NoVersionConflictUnderLock ==
  \A c \in Calls :
    /\ repoErr[c].category # "CONFLICT" /\ err[c].category # "CONFLICT"
    /\ pc[c] = "Update" => VersionGuard(c) = {currentStock[c]}
    /\ pc[c] = "CommitUpdate" =>
         /\ txWrite[c].old = {currentStock[c]}
         /\ Cardinality(txWrite[c].new) = 1
    /\ (Returned(c) /\ err[c] # NoError) =>
         \/ repoErr[c] = NoError /\ adjustment[c].delta = 0
         \/ repoErr[c] = NewValidationError
         \/ repoErr[c] = NewDBError(StorageFailure)
         \/ /\ repoErr[c] = NewDBError(UniqueViolation)
            /\ ~ReadRow(c)
            /\ \E o \in Calls :
                 Concurrent(c, o) /\ Inserted(o) /\ PairOf(o) = PairOf(c)

(* two first inserts raced and one lost on the uniqueness constraint,      *)
(* while a third call on the pair, started before the winner committed,    *)
(* waited, read the inserted row and updated it                            *)
C27_Witness ==
  \E c1, c2, c3 \in Calls :
    /\ Inserted(c1) /\ Concurrent(c1, c2) /\ Concurrent(c1, c3)
    /\ PairOf(c1) = PairOf(c2) /\ PairOf(c1) = PairOf(c3)
    /\ repoErr[c2] = NewDBError(UniqueViolation)
    /\ Succeeded(c3) /\ currentStock[c3] = stockLevel[c1]

(* C28: in the step in which a call returns success, on the insert path   *)
(* and on the update path, the pair has exactly one stored row after the   *)
(* commit, and the stock level returned has the id, the quantity and the   *)
(* version of that row; on the update path the returned quantity and       *)
(* version are the ones computed from the row read (quantity + delta,      *)
(* version + 1), on the insert path the delta and version 1.               *)
C28_ReturnedEqualsCommitted ==
  [][\A c \in Calls :
       (pc[c] # "done" /\ pc'[c] = "done" /\ err'[c] = NoError) =>
         /\ \E r \in rows' : StoredRows(PairOf(c))' = {r}
         /\ \A r \in StoredRows(PairOf(c))' :
              /\ stockLevel'[c].id = r.id
              /\ stockLevel'[c].quantity = r.quantity
              /\ stockLevel'[c].version = r.version
              /\ stockLevel'[c].createdAt = r.createdAt
         /\ IF ReadRow(c)
            THEN /\ stockLevel'[c].quantity =
                      currentStock[c].quantity + adjustment[c].delta
                 /\ stockLevel'[c].version = currentStock[c].version + 1
            ELSE /\ stockLevel'[c].quantity = adjustment[c].delta
                 /\ stockLevel'[c].version = InitialVersion]_vars

(* a call has inserted the row of a pair and a concurrent call, which      *)
(* waited for it, has updated that row: the stored row has the quantity    *)
(* and the version the second call returned, but the time of its UPDATE    *)
(* statement, not the later time.Now() of the returned value               *)
C28_Witness ==
  \E c1, c2 \in Calls :
    /\ Inserted(c1) /\ Concurrent(c1, c2)
    /\ Succeeded(c2) /\ currentStock[c2] = stockLevel[c1]
    /\ \E r \in StoredRows(PairOf(c2)) :
         /\ r.quantity = stockLevel[c2].quantity
         /\ r.version = stockLevel[c2].version
         /\ r.updatedAt < stockLevel[c2].updatedAt
    /\ \A c3 \in Calls \ {c1, c2} : pc[c3] = "idle"

(* the row locks call c holds *)
LocksOf(c) == {l \in locks : l[1] = c}

(* C29: with a storage that stays available and weak fairness for the     *)
(* statements of every transaction, from some moment on every call that    *)
(* has started has returned (a call starts once and a returned call stays  *)
(* returned, so this says that every started call eventually returns),     *)
(* with success, ValidationError, ConflictError or InternalError; and at   *)
(* every moment each call holds at most one row lock, waits for at most    *)
(* one transaction, and the transaction it waits for is itself not         *)
(* waiting, so that no cycle of waiting calls exists.                      *)
C29_EveryCallReturns ==
  /\ <>[](\A c \in Calls :
            pc[c] # "idle" =>
              Returned(c) /\ RequestState(c) \in TerminalStates)
  /\ [](\A c \in Calls :
          /\ Cardinality(LocksOf(c)) <= 1
          /\ Cardinality(Blockers(c)) <= 1
          /\ \A o \in Blockers(c) : InFlight(o) /\ Blockers(o) = {})

(* three concurrent calls on one pair, each of the later two having waited *)
(* for the row lock of the one before, have all returned success           *)
C29_Witness ==
  /\ \A c1, c2 \in Calls :
       c1 # c2 => Concurrent(c1, c2) /\ PairOf(c1) = PairOf(c2)
  /\ \A c \in Calls : Succeeded(c) /\ ReadRow(c)
  /\ locks = {}

(* call c is a GetStockLevel that has returned *)
HasRead(c) ==
  /\ Returned(c) /\ adjustment[c].delta = 0
  /\ err[c] # NewValidationError

(* C30: a step of a call on pair P (an adjustment at any of its            *)
(* statements and with any outcome, or a GetStockLevel) leaves the rows of *)
(* every other pair as they were; it leaves the row of P as it was too,    *)
(* unless it is the commit of an adjustment that returns success, which    *)
(* leaves the id, the pair and the creation time of the row it updates     *)
(* unchanged; and a GetStockLevel changes no row, no lock and no           *)
(* uncommitted write, and returns a committed row.                         *)
C30_FrameOfACall ==
  [][\A c \in Calls :
       pc'[c] # pc[c] =>
         /\ PairOf(c)' \in Pairs
         /\ \A q \in Pairs :
              IF q # PairOf(c)'
              THEN StoredRows(q)' = StoredRows(q)
              ELSE \A r \in StoredRows(q) :
                     \E r2 \in StoredRows(q)' : SameRow(r, r2)
         /\ rows' # rows =>
              /\ pc[c] \in {"CommitInsert", "CommitUpdate"}
              /\ pc'[c] = "done" /\ err'[c] = NoError
         /\ HasRead(c)' =>
              /\ rows' = rows /\ locks' = locks /\ txWrite' = txWrite
              /\ err'[c] = NoError => stockLevel'[c] \in rows]_vars

(* an adjustment on one pair has updated its row while the row of another  *)
(* pair, which a GetStockLevel has read, is as it was at the start         *)
C30_Witness ==
  \E c1, c2 \in Calls :
    /\ Succeeded(c1) /\ ReadRow(c1) /\ adjustment[c1].delta # 0
    /\ StoredRows(PairOf(c1)) # InitialRows(PairOf(c1))
    /\ HasRead(c2) /\ err[c2] = NoError /\ PairOf(c2) # PairOf(c1)
    /\ StoredRows(PairOf(c2)) = {stockLevel[c2]}
    /\ InitialRows(PairOf(c2)) = {stockLevel[c2]}

=============================================================================
